---- MODULE Spec2Model ----
(***************************************************************************)
(* DeepfoolLinfAttack (src/img_attacks/deepfool.py) as a state machine.    *)
(*                                                                         *)
(* Numbers.  Tensors of floats are modelled in fixed point: one unit is    *)
(* 1e-4, so 1.0 is 10000, the default eps 0.1 is 1000 and the stability    *)
(* offset 1e-4 of line 157 is one unit.  A batch is a function from Rows   *)
(* to samples, a sample is a function from Dims to a number of units.      *)
(* overshoot is kept in percent (0.02 is 2).  Quotients are rounded to the *)
(* nearest unit.                                                           *)
(*                                                                         *)
(* Control.  pc is the position of the caller / of perturb:                *)
(*   "idle"  the object is constructed, perturb is not running             *)
(*   "loop"  at the head of the for loop of line 128                       *)
(*   "body"  inside an iteration, after the convergence check (line 134)   *)
(*   "ret"   at the return statement of line 169                           *)
(*   "done"  perturb has returned `result`                                 *)
(*   "error" perturb has raised `err`                                      *)
(***************************************************************************)
EXTENDS Integers, Sequences, FiniteSets, TLC

VARIABLES
    self,        \* the attack object's attributes (lines 47-52 and the base class's clip_min, clip_max)
    self0,       \* history: the attributes as __init__ set them
    pc,          \* position, see above
    calls,       \* history: number of perturb calls made on the object
    xin,         \* the caller's input batch, the argument x of perturb
    yin,         \* the caller's label batch, the argument y of perturb
    x,           \* perturb's local x: the working point x_current
    x0,          \* perturb's local x0 (line 126)
    y,           \* the label batch
    classes,     \* perturb's local classes (line 111)
    rand_classes,\* perturb's local rand_classes (line 113), the ranks drawn
    p_total,     \* perturb's local p_total (line 127)
    it,          \* number of completed rounds of the for loop
    diffs,       \* perturb's local diffs (lines 130, 136) of the current round
    is_adv,      \* perturb's local is_adv (line 132) of the latest convergence check
    marked,      \* history: per sample, the round (1-based) whose check first marked it adversarial, 0 if none
    x_marked,    \* history: per sample, its x at that check
    result,      \* the tensor perturb returned
    err          \* the exception perturb raised, "" if none

vars == <<self, self0, pc, calls, xin, yin, x, x0, y, classes, rand_classes, p_total,
          it, diffs, is_adv, marked, x_marked, result, err>>

-----------------------------------------------------------------------------
(* Bounds of the model *)

\* largest nb_iter a constructed attack is given
MaxNbIter == 3
\* number of perturb calls made on one attack object
MaxCalls == 2

-----------------------------------------------------------------------------
(* Shapes *)

\* rows = range(N), the batch of two samples
Rows == {1, 2}
\* the feature positions of one sample (shape D)
Dims == {1, 2}
\* the class indices of the classifier's score vector (logits.shape[-1] = 3)
ClassIds == 0 .. 2
\* logits.shape[-1]
NumLogits == Cardinality(ClassIds)

\* num_classes is None (its default) or an int: None is the empty tuple and
\* the int v the tuple <<v>>
None == <<>>
Int_(v) == <<v>>
\* self.num_classes once it is an int
num_classes_of(s) == s.num_classes[1]

\* the stability offset added to the selected distance: 1e-4, one unit
StabilityOffset == 1

Abs(v) == IF v < 0 THEN -v ELSE v
Sign(v) == IF v > 0 THEN 1 ELSE IF v < 0 THEN -1 ELSE 0
Min(a, b) == IF a <= b THEN a ELSE b
\* a / b rounded to the nearest integer, for a >= 0 and b > 0
RoundDiv(a, b) == (2 * a + b) \div (2 * b)

\* torch.zeros_like(x)
ZeroSample == [d \in Dims |-> 0]
ZeroBatch == [n \in Rows |-> ZeroSample]

\* Tensor.clamp_(lo, hi) on one element: min(max(v, lo), hi)
clamp(v, lo, hi) == IF v < lo THEN Min(lo, hi) ELSE IF v > hi THEN hi ELSE v

-----------------------------------------------------------------------------
(* The classifier self.predict: a fixed linear scorer, scores = W x + B.   *)
(* It is per sample and deterministic.                                     *)

W == [c \in ClassIds |->
        CASE c = 0 -> [d \in Dims |-> 0]
          [] c = 1 -> [d \in Dims |-> 1]
          [] c = 2 -> [d \in Dims |-> IF d = 1 THEN -1 ELSE 2]]
B == [c \in ClassIds |-> CASE c = 0 -> 11000 [] c = 1 -> 0 [] c = 2 -> -6000]

\* self.predict(x) for one sample
predict(xn) == [c \in ClassIds |-> W[c][1] * xn[1] + W[c][2] * xn[2] + B[c]]

\* logits.argmax(-1) for one sample: the first index of a maximal score
argmax(l) == CHOOSE c \in ClassIds :
                /\ \A e \in ClassIds : l[e] <= l[c]
                /\ \A e \in ClassIds : e < c => l[e] < l[c]

\* the permutations of the class indices
ClassOrders == {p \in [ClassIds -> ClassIds] :
                    \A i, j \in ClassIds : i # j => p[i] # p[j]}

\* the orderings logits.argsort(axis=-1).flip(-1) may return for one sample:
\* every permutation of the classes with non-increasing score (argsort is
\* not stable, so equal scores may come in either order)
argsort_flip(l) ==
    {p \in ClassOrders : \A i, j \in ClassIds : i < j => l[p[i]] >= l[p[j]]}

-----------------------------------------------------------------------------
(* The helpers of the attack *)

\* is_adv(logits, y): y_hat != y, per sample
is_adv_of(logits, yy) == [n \in Rows |-> argmax(logits[n]) # yy[n]]

\* get_deltas_logits(x, k, classes): the score of the rank-k class minus the
\* score of the rank-0 class of each sample's ordering, and the scores
get_deltas_logits(xx, k, cls) ==
    LET logits == [n \in Rows |-> predict(xx[n])]
    IN  [k      |-> k,
         deltas |-> [n \in Rows |-> logits[n][cls[n][k]] - logits[n][cls[n][0]]],
         logits |-> logits]

\* get_grads(x, k, classes): the above plus the gradient of sum_deltas with
\* respect to x, which for the linear scorer is W[ik] - W[i0] per sample.
\* x.grad is cloned and then zeroed, so no gradient carries over to the
\* next call.
get_grads(xx, k, cls) ==
    LET dl == get_deltas_logits(xx, k, cls)
    IN  [k      |-> dl.k,
         deltas |-> dl.deltas,
         logits |-> dl.logits,
         grads  |-> [n \in Rows |->
                       [d \in Dims |-> W[cls[n][k]][d] - W[cls[n][0]][d]]]]

\* get_distances(deltas, grads) for one sample and one challenger:
\* abs(delta) / (sum of abs(grad) over the feature dimensions + 1e-8).
\* In float32 s + 1e-8 = s for s >= 1.  For s = 0 the quotient is
\* abs(delta) / 1e-8; the model keeps it as abs(delta) * DistanceOfFlat,
\* large enough to stay above the distance of every challenger that has a
\* gradient and small enough for 32-bit integer arithmetic.
DistanceOfFlat == 10000
get_distances(delta, grad) ==
    LET s == Abs(grad[1]) + Abs(grad[2])
    IN  IF s = 0 THEN Abs(delta) * DistanceOfFlat ELSE RoundDiv(Abs(delta), s)

\* get_perturbations(distances, grads) for one sample:
\* atleast_kd(distances, grads.ndim) * grads.sign()
get_perturbations(distance, grad) == [d \in Dims |-> distance * Sign(grad[d])]

\* distances.argmin(axis=1) for one sample: the first position (1-based in
\* diffs) of a minimal distance
argmin(dist) == CHOOSE j \in DOMAIN dist :
                   /\ \A i \in DOMAIN dist : dist[j] <= dist[i]
                   /\ \A i \in DOMAIN dist : i < j => dist[i] > dist[j]

\* lines 161-162 without the clamp_ of line 162
accumulate_unclamped(p, step, eps) == [d \in Dims |-> p[d] + step[d]]

\* lines 161-162: p_total += p_step; p_total.clamp_(-eps, eps), one sample
accumulate(p, step, eps) == [d \in Dims |-> clamp(p[d] + step[d], -eps, eps)]

\* (1.0 + overshoot) * p, one element, overshoot in percent
overshot(p, overshoot) == Sign(p) * RoundDiv(Abs(p) * (100 + overshoot), 100)

\* lines 164-167 for one sample: torch.where(is_adv, x, x0 + (1 + overshoot) * p_total)
\* followed by clamp_(clip_min, clip_max)
next_x(adv, xn, x0n, pn, s) ==
    [d \in Dims |->
        clamp(IF adv THEN xn[d] ELSE x0n[d] + overshot(pn[d], s.overshoot),
              s.clip_min, s.clip_max)]

\* line 133 with the break never taken
all_never(flags) == FALSE

\* line 133: is_adv.all()
all(flags) == \A n \in Rows : flags[n]

-----------------------------------------------------------------------------
(* Construction *)

\* the values __init__ may be given
NumClassesArgs == {None, Int_(1), Int_(2), Int_(3), Int_(4)}
NbIterArgs == -1 .. MaxNbIter
EpsArgs == {0, 300, 1000}
OvershootArgs == {0, 2}

\* the labelled samples perturb may be given, as <<x1, x2, label>>:
\*   <<6000, 4000, 0>>  classified 0 as labelled, 0.05 from class 1
\*   <<6000, 4000, 1>>  the same point, misclassified from the start
\*   <<12000, 0, 0>>    outside [clip_min, clip_max]; classified 1 there
\*                      and 0 once clipped to <<10000, 0>>
\*   <<0, 9000, 2>>     classified 2 as labelled
\*   <<5000, 6000, 0>>  classes 0 and 1 score equally
\*   <<2000, 2000, 0>>  classified 0 as labelled, 0.35 from class 1
LabelledSamples == {<<6000, 4000, 0>>, <<6000, 4000, 1>>, <<12000, 0, 0>>,
                    <<0, 9000, 2>>, <<5000, 6000, 0>>, <<2000, 2000, 0>>}
\* the batches x, y of a call
BatchX(b) == [n \in Rows |-> [d \in Dims |-> b[n][d]]]
BatchY(b) == [n \in Rows |-> b[n][3]]

\* __init__ (lines 37-52), with the default clip_min = 0., clip_max = 1.
Init ==
    /\ self \in [num_classes  : NumClassesArgs,
                 nb_iter      : NbIterArgs,
                 eps          : EpsArgs,
                 random_class : BOOLEAN,
                 overshoot    : OvershootArgs,
                 clip_min     : {0},
                 clip_max     : {10000}]
    /\ self0 = self
    /\ pc = "idle"
    /\ calls = 0
    /\ xin = ZeroBatch
    /\ yin = [n \in Rows |-> 0]
    /\ x = ZeroBatch
    /\ x0 = ZeroBatch
    /\ y = [n \in Rows |-> 0]
    /\ classes = [n \in Rows |-> [i \in ClassIds |-> i]]
    /\ rand_classes = [n \in Rows |-> 0]
    /\ p_total = ZeroBatch
    /\ it = 0
    /\ diffs = <<>>
    /\ is_adv = [n \in Rows |-> FALSE]
    /\ marked = [n \in Rows |-> 0]
    /\ x_marked = ZeroBatch
    /\ result = ZeroBatch
    /\ err = ""

-----------------------------------------------------------------------------
(* perturb *)

\* the locals of a perturb call that has got past line 127
Enter(xx, yy, cls, rnd) ==
    /\ x' = xx
    /\ x0' = xx
    /\ y' = yy
    /\ classes' = cls
    /\ rand_classes' = rnd
    /\ p_total' = ZeroBatch
    /\ it' = 0
    /\ diffs' = <<>>
    /\ is_adv' = [n \in Rows |-> FALSE]
    /\ marked' = [n \in Rows |-> 0]
    /\ x_marked' = ZeroBatch
    /\ result' = ZeroBatch
    /\ err' = ""
    /\ pc' = "loop"

\* perturb raises e: the locals are gone
Raise(e) ==
    /\ x' = ZeroBatch
    /\ x0' = ZeroBatch
    /\ y' = [n \in Rows |-> 0]
    /\ classes' = [n \in Rows |-> [i \in ClassIds |-> i]]
    /\ rand_classes' = [n \in Rows |-> 0]
    /\ p_total' = ZeroBatch
    /\ it' = 0
    /\ diffs' = <<>>
    /\ is_adv' = [n \in Rows |-> FALSE]
    /\ marked' = [n \in Rows |-> 0]
    /\ x_marked' = ZeroBatch
    /\ result' = ZeroBatch
    /\ err' = e
    /\ pc' = "error"

\* the orderings line 111 may give the batch
Orderings(xx) ==
    LET per == [n \in Rows |-> argsort_flip(predict(xx[n]))]
    IN  {cls \in [Rows -> UNION {per[n] : n \in Rows}] :
            \A n \in Rows : cls[n] \in per[n]}

\* the ranks random_(1, self.num_classes) of line 113 may draw.  With
\* num_classes an int they are 1 .. num_classes - 1.  With num_classes None
\* the upper end is the largest value of the dtype: every draw but a
\* handful is an index outside classes, and NumLogits stands for those.
RandomRanks ==
    IF self.num_classes = None THEN 1 .. NumLogits
    ELSE 1 .. (num_classes_of(self) - 1)

\* lines 105-127 with random_class set
CallRandom(xx, yy) ==
    /\ self.random_class
    /\ \/ /\ RandomRanks = {}                 \* random_(1, to) with to <= from
          /\ Raise("RuntimeError")
          /\ UNCHANGED self
       \/ \E rnd \in [Rows -> RandomRanks] :
             IF \E n \in Rows : rnd[n] >= NumLogits
             THEN \* torch.gather with an index outside classes
                  /\ Raise("RuntimeError")
                  /\ UNCHANGED self
             ELSE \* the result of torch.cat is not bound to a name:
                  \* classes stays the full ordering
                  /\ \E cls \in Orderings(xx) : Enter(xx, yy, cls, rnd)
                  /\ self' = [self EXCEPT !.num_classes = Int_(2)]

\* lines 105-127 with random_class not set
CallPlain(xx, yy) ==
    /\ ~self.random_class
    /\ \E cls \in Orderings(xx) :
          Enter(xx, yy, cls, [n \in Rows |-> 0])
    /\ self' = [self EXCEPT !.num_classes =
                   IF self.num_classes = None THEN Int_(NumLogits)
                   ELSE Int_(Min(num_classes_of(self), NumLogits))]

\* perturb(x, y) from line 105 to the head of the loop
perturb(xx, yy) == CallRandom(xx, yy) \/ CallPlain(xx, yy)

\* the caller's first call of perturb, on a batch of its choice
Call ==
    /\ pc = "idle"
    /\ calls < MaxCalls
    /\ calls' = calls + 1
    /\ \E b \in [Rows -> LabelledSamples] :
          /\ xin' = BatchX(b)
          /\ yin' = BatchY(b)
          /\ perturb(BatchX(b), BatchY(b))
    /\ UNCHANGED self0

\* the caller calls perturb again on the same object and the same batch,
\* after a return or an exception
CallAgain ==
    /\ pc \in {"done", "error"}
    /\ calls < MaxCalls
    /\ calls' = calls + 1
    /\ perturb(xin, yin)
    /\ UNCHANGED <<self0, xin, yin>>

\* lines 128-134: a round starts with the k = 1 pass and the convergence check
Gate ==
    /\ pc = "loop"
    /\ it < self.nb_iter
    /\ LET d1 == get_grads(x, 1, classes)
           adv == is_adv_of(d1.logits, y)
       IN  /\ diffs' = <<d1>>
           /\ is_adv' = adv
           /\ marked' = [n \in Rows |->
                           IF marked[n] = 0 /\ adv[n] THEN it + 1 ELSE marked[n]]
           /\ x_marked' = [n \in Rows |->
                             IF marked[n] = 0 /\ adv[n] THEN x[n] ELSE x_marked[n]]
           /\ pc' = IF all(adv) THEN "ret" ELSE "body"
    /\ UNCHANGED <<self, self0, calls, xin, yin, x, x0, y, classes, rand_classes,
                   p_total, it, result, err>>

\* line 128: range(nb_iter) is exhausted
Exhausted ==
    /\ pc = "loop"
    /\ it >= self.nb_iter
    /\ pc' = "ret"
    /\ UNCHANGED <<self, self0, calls, xin, yin, x, x0, y, classes, rand_classes,
                   p_total, it, diffs, is_adv, marked, x_marked, result, err>>

\* line 136: diffs += [get_grads(x, k, classes) for k in range(2, num_classes)]
challengers(ds) ==
    ds \o [j \in 1 .. (IF num_classes_of(self) > 2 THEN num_classes_of(self) - 2 ELSE 0)
             |-> get_grads(x, j + 1, classes)]

\* lines 136-167: the rest of a round
Body ==
    /\ pc = "body"
    /\ LET ds == challengers(diffs)
       IN  IF Len(ds) # num_classes_of(self) - 1
           THEN \* the assertion of line 140
                Raise("AssertionError")
           ELSE LET distances == [n \in Rows |->
                        [j \in 1 .. Len(ds) |->
                            get_distances(ds[j].deltas[n], ds[j].grads[n])]]
                    best == [n \in Rows |-> argmin(distances[n])]
                    p_step == [n \in Rows |->
                        get_perturbations(distances[n][best[n]] + StabilityOffset,
                                          ds[best[n]].grads[n])]
                    p_new == [n \in Rows |->
                        accumulate(p_total[n], p_step[n], self.eps)]
                IN  /\ diffs' = ds
                    /\ p_total' = p_new
                    /\ x' = [n \in Rows |->
                               next_x(is_adv[n], x[n], x0[n], p_new[n], self)]
                    /\ it' = it + 1
                    /\ pc' = "loop"
                    /\ UNCHANGED <<x0, y, classes, rand_classes, is_adv,
                                   marked, x_marked, result, err>>
    /\ UNCHANGED <<self, self0, calls, xin, yin>>

\* line 169: return x.detach()
Return ==
    /\ pc = "ret"
    /\ result' = x
    /\ pc' = "done"
    /\ UNCHANGED <<self, self0, calls, xin, yin, x, x0, y, classes, rand_classes,
                   p_total, it, diffs, is_adv, marked, x_marked, err>>

Next == Call \/ CallAgain \/ Gate \/ Exhausted \/ Body \/ Return

Spec == Init /\ [][Next]_vars

-----------------------------------------------------------------------------
(* Properties *)

\* perturb is running or has returned: its locals are live
Live == pc \in {"loop", "body", "ret", "done"}

\* Tensor.clamp(clip_min, clip_max) of a batch
Clipped(b) == [n \in Rows |->
                 [d \in Dims |-> clamp(b[n][d], self.clip_min, self.clip_max)]]

\* C1: the tensor perturb returns is within eps of the input at every
\* element of every sample.
C1_LinfBudget ==
    pc = "done" =>
        \A n \in Rows, d \in Dims : Abs(result[n][d] - x0[n][d]) <= self.eps

\* C2: every element of the tensor perturb returns lies in
\* [clip_min, clip_max], however the loop ended.
C2_ReturnedWithinClip ==
    pc = "done" =>
        \A n \in Rows, d \in Dims :
            self.clip_min <= result[n][d] /\ result[n][d] <= self.clip_max

\* C3: once a convergence check has marked a sample adversarial, its working
\* point stays what it was at that check, through that round and every later
\* one, and is what perturb returns for it.
C3_IdempotentFreeze ==
    Live =>
        \A n \in Rows :
            marked[n] # 0 =>
                /\ x[n] = x_marked[n]
                /\ pc = "done" => result[n] = x_marked[n]

\* C4: with nb_iter = 0, or with every sample misclassified from the start,
\* perturb returns the input clipped to [clip_min, clip_max].
C4_NothingToDo ==
    (/\ pc = "done"
     /\ \/ self.nb_iter = 0
        \/ \A n \in Rows : argmax(predict(x0[n])) # y[n])
        => result = Clipped(xin)

\* C5: in randomized-class mode num_classes is 2 and the classes a round
\* scores are, per sample, the initial top-1 class and the class at the rank
\* drawn for that sample.
C5_RandomChallenger ==
    (self0.random_class /\ pc \in {"body", "ret"} /\ diffs # <<>>) =>
        /\ self.num_classes = Int_(2)
        /\ \A n \in Rows :
              {classes[n][0]} \cup {classes[n][diffs[j].k] : j \in DOMAIN diffs}
                 = {classes[n][0], classes[n][rand_classes[n]]}

\* a configuration with nb_iter <= 0 or num_classes < 2
Malformed(s) ==
    \/ s.nb_iter <= 0
    \/ s.num_classes # None /\ num_classes_of(s) < 2

\* C6: perturb on an attack constructed with a malformed configuration raises
\* before any round is run and returns nothing.
C6_MalformedRaises ==
    Malformed(self0) => pc \in {"idle", "error"}

\* C7: the attributes of the attack are those __init__ set, whatever calls of
\* perturb were made.
C7_ConfigurationKept == self = self0

\* C8: every element of p_total lies in [-eps, eps] after every round, for
\* every sample, and p_total is zero when the loop is entered.
C8_PTotalWithinEps ==
    /\ \A n \in Rows, d \in Dims :
          -self.eps <= p_total[n][d] /\ p_total[n][d] <= self.eps
    /\ (pc = "loop" /\ it = 0) => p_total = ZeroBatch

\* C8 happens: between two rounds, a sample marked adversarial in round 1 has
\* a p_total that two steps, each larger than eps, left at eps.
C8_Witness ==
    /\ pc = "loop"
    /\ it = 2
    /\ it < self.nb_iter
    /\ self.eps > 0
    /\ \E n \in Rows :
          /\ marked[n] = 1
          /\ p_total[n][1] = self.eps
          /\ \A j \in DOMAIN diffs :
                get_distances(diffs[j].deltas[n], diffs[j].grads[n]) > self.eps

\* C9: a sample that a convergence check of the call found adversarial is
\* found adversarial by every later check of the call.
C9_AdversarialStays ==
    Live => \A n \in Rows : marked[n] # 0 => is_adv[n]

\* C10: a round whose k = 1 check finds every sample adversarial goes to the
\* return statement with only the k = 1 pass made and x and p_total as they
\* were, and the return statement returns that x.
C10_EarlyExit ==
    [][/\ (pc = "loop" /\ it < self.nb_iter /\ \A n \in Rows : is_adv'[n]) =>
            /\ pc' = "ret"
            /\ x' = x
            /\ p_total' = p_total
            /\ Len(diffs') = 1
            /\ diffs'[1].k = 1
       /\ (pc = "ret" /\ pc' = "done") => result' = x
      ]_vars

\* C10 happens: perturb returned from a later round than the first, with
\* rounds and challenger classes k >= 2 left, on a full-batch convergence.
C10_Witness ==
    /\ pc = "done"
    /\ it >= 1
    /\ it < self.nb_iter
    /\ num_classes_of(self) >= 3
    /\ \A n \in Rows : is_adv[n]
    /\ Len(diffs) = 1
    /\ result = x
    /\ result # xin

-----------------------------------------------------------------------------
(* What is left of C1, C2, C3, C4 and C9 for a batch that lies within      *)
(* [clip_min, clip_max] when perturb is given it.                          *)

InRange ==
    \A n \in Rows, d \in Dims :
        self.clip_min <= xin[n][d] /\ xin[n][d] <= self.clip_max

\* within eps of the input when, moreover, overshoot is 0
InRange_LinfBudget == (InRange /\ self.overshoot = 0) => C1_LinfBudget
\* returned within the clip range
InRange_ReturnedWithinClip == InRange => C2_ReturnedWithinClip
\* a marked sample keeps its working point
InRange_IdempotentFreeze == InRange => C3_IdempotentFreeze
\* nothing to do: the input comes back
InRange_NothingToDo == InRange => C4_NothingToDo
\* a marked sample stays adversarial
InRange_AdversarialStays == InRange => C9_AdversarialStays

====
